---- MODULE Spec2Model ----
(***************************************************************************)
(* kafka-offset: the process orchestrator (kafka-offset.go: main and       *)
(* installSignalHandler) wired to the Kafka republish sink                 *)
(* (pkg/sinks/kafka_sink.go: NewKafkaSink, run, Close, Wait).  The         *)
(* collection engine and the sink registry live in pkg/metrics; they are   *)
(* modelled at their boundary (Run / Wait / Close, New).                   *)
(***************************************************************************)
EXTENDS Integers, Sequences, FiniteSets, TLC

\* ---------------------------------------------------------------- bounds
\* Sampling ticks the engine performs before it only waits for the stop signal.
MaxTicks == 2
\* Keys (partitions) sampled per tick: the length of a full batch.
NumKeys == 2
\* Capacity of each metric channel in the model (make(chan ..., 1024) scaled
\* down so that a full channel is reached).
ChanCap == 1
\* Failing exports (marshal or publish errors) the downstream injects.
MaxErrors == 1
\* Partitions of the sampled topic.
NumParts == 1
\* Largest offset the cluster reports.
MaxOffset == 2
\* Sampling ticks of the engine's sampling loop.
SampleTicks == 3

\* ------------------------------------------------------------- constants
\* The four metric kinds, in the order of the KafkaSink struct fields.
Kinds == {"offset", "group", "topicRate", "groupRate"}

\* The order in which one engine tick sends its four batches.
SendOrder == <<"offset", "group", "topicRate", "groupRate">>

\* Names the registry knows (metrics.RegisterSink("kafka", NewKafkaSink)).
Registered == {"kafka"}

\* Values of the -sink flag tried by the model.
SinkNames == {"kafka", "nosuch"}

VARIABLES
    \* ---- main (kafka-offset.go)
    mpc,          \* position of main
    err,          \* main's err variable
    sink,         \* main's sink variable: "nil" or "kafka"
    defers,       \* main's deferred calls, last registered last
    logged,       \* errors main has logged with logrus.Error, in order
    \* ---- NewKafkaSink's effects
    ctorErr,      \* the error raised inside NewKafkaSink ("nil" when none, "none" before the call)
    producer,     \* "none", "open", "closed"
    sinkMade,     \* TRUE once the four channels and the stop channel exist
    \* ---- KafkaSink
    chans,        \* [Kinds -> Seq(batch)]: the buffered batches of each channel
    closeCount,   \* [Kinds -> Nat]: how many times close() ran on each channel
    sinkStop,     \* how many times close(sink.stopCh) ran
    wgCount,      \* sink.wg counter
    wpc,          \* [Kinds -> position of the worker goroutine]
    wbatch,       \* [Kinds -> the batch the worker is ranging over]
    widx,         \* [Kinds -> index of the next record of wbatch]
    cpc,          \* position inside KafkaSink.Close
    cidx,         \* index into CloseOrder of the next channel Close closes
    \* ---- the engine (pkg/metrics, at its boundary)
    epc,          \* "none", "created", "running", "sending", "stopped"
    etick,        \* ticks started so far
    ekind,        \* index into SendOrder of the batch being sent
    engineClosed, \* how many times s.Close ran
    stopCh,       \* how many times close() ran on the channel s.Run returned
    \* ---- signal handler (installSignalHandler)
    hpc,          \* "none", "recv", "close", "log", "done"
    sigBuf,       \* signals buffered in c (capacity 1)
    hwg,          \* the handler's WaitGroup counter
    \* ---- observations
    sent,         \* [Kinds -> Seq(batch)]: batches accepted by each channel, in order
    attempts,     \* [Kinds -> Seq(record)]: the records each worker's loop has handled, in order
    errs,         \* errors the workers have logged so far
    panicked,     \* a send on a closed channel or a second close happened
    earlyClose,   \* Close closed the stop channel before any worker had run
    recvBy,       \* [Kinds -> set of workers]: the workers that have received from each channel
    recvClosed,   \* a worker performed a receive on a closed metric channel
    \* ---- collection engine: one sampling tick (pkg/metrics)
    stick,        \* sampling ticks begun
    spos,         \* position inside the tick: 0 between ticks, then one step per key
    logEndNow,    \* partition -> log-end offset fetched in this tick
    hist,         \* the sample-history map: key -> last offset value
    lastObs,      \* key -> the offset the cluster reported at its latest sample
    sampled,      \* the sample taken by the latest step: {[key, off]} or {}
    rateOut,      \* rate metrics emitted by the latest step
    lagOut        \* ConsumerGroupOffsetMetrics emitted by the latest step

mainVars == <<mpc, err, sink, defers, logged>>
ctorVars == <<ctorErr, producer, sinkMade>>
sinkVars == <<chans, closeCount, sinkStop, wgCount, wpc, wbatch, widx, cpc, cidx>>
engVars  == <<epc, etick, ekind, engineClosed, stopCh>>
sigVars  == <<hpc, sigBuf, hwg>>
obsVars  == <<sent, attempts, errs, panicked, earlyClose>>
recvVars == <<recvBy, recvClosed>>
sampVars == <<stick, spos, logEndNow, hist, lastObs, sampled, rateOut, lagOut>>
vars == <<mainVars, ctorVars, sinkVars, engVars, sigVars, obsVars, recvVars, sampVars>>

\* ------------------------------------------------------------ helpers
\* Number of records of the batch of kind k produced by tick t: one record per
\* key; a rate needs a previous sample, so the first tick's rate batches are empty.
BatchSize(k, t) ==
    IF k \in {"topicRate", "groupRate"} /\ t = 1 THEN 0 ELSE NumKeys

\* The batch of kind k produced by tick t: records <<tick, key>> in key order.
Batch(k, t) == [i \in 1..BatchSize(k, t) |-> <<t, i>>]

\* ------------------------------------------------------ NewKafkaSink
NewKafkaSink_RunsBeforeCheck(tlsErr, prodErr) ==
    IF tlsErr # "nil"
    THEN [sink |-> "nil", err |-> tlsErr, producer |-> "none", made |-> FALSE, run |-> FALSE]
    ELSE IF prodErr # "nil"
    THEN [sink |-> "nil", err |-> prodErr, producer |-> "none", made |-> TRUE, run |-> TRUE]
    ELSE [sink |-> "kafka", err |-> "nil", producer |-> "open", made |-> TRUE, run |-> TRUE]

\* What NewKafkaSink returns and leaves behind, given the outcome of
\* util.GetTLSConfiguration and of sarama.NewSyncProducer.
NewKafkaSink(tlsErr, prodErr) ==
    IF tlsErr # "nil"
    THEN [sink |-> "nil", err |-> tlsErr, producer |-> "none", made |-> FALSE, run |-> FALSE]
    ELSE IF prodErr # "nil"
    THEN [sink |-> "nil", err |-> prodErr, producer |-> "none", made |-> FALSE, run |-> FALSE]
    ELSE [sink |-> "kafka", err |-> "nil", producer |-> "open", made |-> TRUE, run |-> TRUE]

\* The error raised inside NewKafkaSink: by util.GetTLSConfiguration, else by
\* sarama.NewSyncProducer (which runs only when the TLS configuration succeeded).
Raised(tlsErr, prodErr) == IF tlsErr # "nil" THEN tlsErr ELSE prodErr

\* metrics.New: the registry lookup, then the registered constructor.
MetricsNew(name, tlsErr, prodErr) ==
    IF name \notin Registered
    THEN [sink |-> "nil", err |-> "unknownSink", producer |-> "none", made |-> FALSE, run |-> FALSE]
    ELSE NewKafkaSink(tlsErr, prodErr)

\* ------------------------------------------------------------- Init
Init ==
    /\ mpc = "new"
    /\ err = "nil"
    /\ sink = "nil"
    /\ defers = << >>
    /\ logged = << >>
    /\ ctorErr = "none"
    /\ producer = "none"
    /\ sinkMade = FALSE
    /\ chans = [k \in Kinds |-> << >>]
    /\ closeCount = [k \in Kinds |-> 0]
    /\ sinkStop = 0
    /\ wgCount = 0
    /\ wpc = [k \in Kinds |-> "none"]
    /\ wbatch = [k \in Kinds |-> << >>]
    /\ widx = [k \in Kinds |-> 0]
    /\ cpc = "idle"
    /\ cidx = 0
    /\ epc = "none"
    /\ etick = 0
    /\ ekind = 0
    /\ engineClosed = 0
    /\ stopCh = 0
    /\ hpc = "none"
    /\ sigBuf = 0
    /\ hwg = 0
    /\ sent = [k \in Kinds |-> << >>]
    /\ attempts = [k \in Kinds |-> << >>]
    /\ errs = 0
    /\ panicked = FALSE
    /\ earlyClose = FALSE
    /\ recvBy = [k \in Kinds |-> {}]
    /\ recvClosed = FALSE
    /\ stick = 0
    /\ spos = 0
    /\ logEndNow = [p \in {} |-> 0]
    /\ hist = [k \in {} |-> 0]
    /\ lastObs = [k \in {} |-> 0]
    /\ sampled = {}
    /\ rateOut = {}
    /\ lagOut = {}

\* ------------------------------------------------------------- main
AfterNew_IgnoresErr(e) == "newSource"

\* Where main goes after metrics.New returned e (lines 39-43).
AfterNew(e) == IF e # "nil" THEN "exited" ELSE "newSource"

\* sink, err := metrics.New(*sinkName); on error log and return, else defer sink.Close.
MainNew ==
    /\ mpc = "new"
    /\ \E name \in SinkNames, tlsErr \in {"nil", "tlsErr"}, prodErr \in {"nil", "producerErr"} :
        LET r == MetricsNew(name, tlsErr, prodErr) IN
        /\ sink' = r.sink
        /\ err' = r.err
        /\ ctorErr' = IF name \in Registered THEN Raised(tlsErr, prodErr) ELSE "none"
        /\ producer' = r.producer
        /\ sinkMade' = r.made
        /\ wgCount' = IF r.run THEN Cardinality(Kinds) ELSE 0
        /\ wpc' = IF r.run THEN [k \in Kinds |-> "spawned"] ELSE wpc
        /\ logged' = IF r.err # "nil" THEN Append(logged, r.err) ELSE logged
        /\ mpc' = AfterNew(r.err)
        /\ defers' = IF AfterNew(r.err) = "exited" THEN defers ELSE Append(defers, "sinkClose")
    /\ UNCHANGED <<chans, closeCount, sinkStop, wbatch, widx, cpc, cidx>>
    /\ UNCHANGED <<engVars, sigVars, obsVars>>
    /\ UNCHANGED <<recvVars, sampVars>>

AfterNewSource_ExitsOnErr(e) == IF e # "nil" THEN "exited" ELSE "run"

\* Where main goes after metrics.NewKafkaSource returned e (lines 50-54): on an
\* error it returns, which runs the deferred sink.Close.
AfterNewSource(e) == IF e # "nil" THEN "return" ELSE "run"

\* s, err := metrics.NewKafkaSource(sink); on error log and return, else defer s.Close.
MainNewSource ==
    /\ mpc = "newSource"
    /\ \E e \in {"nil", "sourceErr"} :
        /\ err' = e
        /\ IF e # "nil"
           THEN /\ logged' = Append(logged, e)
                /\ mpc' = AfterNewSource(e)
                /\ UNCHANGED <<defers, epc>>
           ELSE /\ epc' = "created"
                /\ defers' = Append(defers, "sClose")
                /\ mpc' = AfterNewSource(e)
                /\ UNCHANGED logged
    /\ UNCHANGED <<sink, ctorVars, sinkVars, etick, ekind, engineClosed, stopCh, sigVars, obsVars>>
    /\ UNCHANGED <<recvVars, sampVars>>

\* stopCh := s.Run(): the engine's sampling loop starts.
MainRun ==
    /\ mpc = "run"
    /\ epc' = "running"
    /\ mpc' = "install"
    /\ UNCHANGED <<err, sink, defers, logged, ctorVars, sinkVars, etick, ekind, engineClosed, stopCh, sigVars, obsVars>>
    /\ UNCHANGED <<recvVars, sampVars>>

\* wg := installSignalHandler(stopCh): Notify, wg.Add(1), go handler.
MainInstall ==
    /\ mpc = "install"
    /\ hpc' = "recv"
    /\ hwg' = 1
    /\ mpc' = "recvStop"
    /\ UNCHANGED <<err, sink, defers, logged, ctorVars, sinkVars, engVars, sigBuf, obsVars>>
    /\ UNCHANGED <<recvVars, sampVars>>

\* <-stopCh: blocks until the stop channel is closed.
MainRecvStop ==
    /\ mpc = "recvStop"
    /\ stopCh > 0
    /\ mpc' = "wgWait"
    /\ UNCHANGED <<err, sink, defers, logged, ctorVars, sinkVars, engVars, sigVars, obsVars>>
    /\ UNCHANGED <<recvVars, sampVars>>

HandlerWaitDone_NoWait == TRUE

\* When main's wg.Wait() returns: the handler's counter is zero.
HandlerWaitDone == hwg = 0

\* wg.Wait(): blocks until the handler goroutine called wg.Done.
MainWgWait ==
    /\ mpc = "wgWait"
    /\ HandlerWaitDone
    /\ mpc' = "sWait"
    /\ UNCHANGED <<err, sink, defers, logged, ctorVars, sinkVars, engVars, sigVars, obsVars>>
    /\ UNCHANGED <<recvVars, sampVars>>

\* s.Wait(): blocks until the engine's loop has returned.
MainSWait ==
    /\ mpc = "sWait"
    /\ epc = "stopped"
    /\ mpc' = "sinkWait"
    /\ UNCHANGED <<err, sink, defers, logged, ctorVars, sinkVars, engVars, sigVars, obsVars>>
    /\ UNCHANGED <<recvVars, sampVars>>

WaitReturns_UntilWorkersExit == wgCount = 0

\* When a call of KafkaSink.Wait may return: its body is empty.
WaitReturns == TRUE

\* sink.Wait(), then main returns and its deferred calls run.
MainSinkWait ==
    /\ mpc = "sinkWait"
    /\ WaitReturns
    /\ mpc' = "return"
    /\ UNCHANGED <<err, sink, defers, logged, ctorVars, sinkVars, engVars, sigVars, obsVars>>
    /\ UNCHANGED <<recvVars, sampVars>>

PopDeferred_Fifo(d) == [call |-> Head(d), rest |-> Tail(d)]

\* The deferred call that runs next when main returns, and the calls left:
\* deferred calls run last registered first.
PopDeferred(d) == [call |-> d[Len(d)], rest |-> SubSeq(d, 1, Len(d) - 1)]

\* The deferred s.Close(): releases the engine's client; an error is logged.
MainDeferSClose ==
    /\ mpc = "return"
    /\ defers # << >>
    /\ PopDeferred(defers).call = "sClose"
    /\ defers' = PopDeferred(defers).rest
    /\ engineClosed' = engineClosed + 1
    /\ \E e \in {"nil", "closeErr"} :
        logged' = IF e # "nil" THEN Append(logged, e) ELSE logged
    /\ UNCHANGED <<mpc, err, sink, ctorVars, sinkVars, epc, etick, ekind, stopCh, sigVars, obsVars>>
    /\ UNCHANGED <<recvVars, sampVars>>

\* The deferred sink.Close() is called.
MainDeferSinkClose ==
    /\ mpc = "return"
    /\ defers # << >>
    /\ PopDeferred(defers).call = "sinkClose"
    /\ defers' = PopDeferred(defers).rest
    /\ mpc' = "inSinkClose"
    /\ cpc' = "closeStop"
    /\ UNCHANGED <<err, sink, logged, ctorVars, chans, closeCount, sinkStop, wgCount, wpc, wbatch, widx, cidx>>
    /\ UNCHANGED <<engVars, sigVars, obsVars>>
    /\ UNCHANGED <<recvVars, sampVars>>

\* main has returned and no deferred call is left.
MainExit ==
    /\ mpc = "return"
    /\ defers = << >>
    /\ mpc' = "exited"
    /\ UNCHANGED <<err, sink, defers, logged, ctorVars, sinkVars, engVars, sigVars, obsVars>>
    /\ UNCHANGED <<recvVars, sampVars>>

\* ------------------------------------------------- KafkaSink.Close
\* close(sink.stopCh)
CloseStop ==
    /\ cpc = "closeStop"
    /\ sinkStop' = sinkStop + 1
    /\ panicked' = (panicked \/ sinkStop > 0)
    /\ earlyClose' = (\A k \in Kinds : wpc[k] = "spawned")
    /\ cpc' = "wait"
    /\ UNCHANGED <<mainVars, ctorVars, chans, closeCount, wgCount, wpc, wbatch, widx, cidx>>
    /\ UNCHANGED <<engVars, sigVars, sent, attempts, errs>>
    /\ UNCHANGED <<recvVars, sampVars>>

WgWaitDone_NoWait == TRUE

WgWaitDone_FirstExit == wgCount < Cardinality(Kinds)

\* When sink.wg.Wait() returns: the counter is zero.
WgWaitDone == wgCount = 0

\* sink.wg.Wait()
CloseWait ==
    /\ cpc = "wait"
    /\ WgWaitDone
    /\ cpc' = "chans"
    /\ cidx' = 1
    /\ UNCHANGED <<mainVars, ctorVars, chans, closeCount, sinkStop, wgCount, wpc, wbatch, widx>>
    /\ UNCHANGED <<engVars, sigVars, obsVars>>
    /\ UNCHANGED <<recvVars, sampVars>>

CloseOrder_Twice == <<"offset", "offset", "topicRate", "groupRate">>

\* The channels Close closes, in the order of its four close() calls.
CloseOrder == <<"offset", "group", "topicRate", "groupRate">>

\* One of the four close(sink.xxxChan) calls; closing a closed channel panics.
CloseChan ==
    /\ cpc = "chans"
    /\ cidx <= Len(CloseOrder)
    /\ LET k == CloseOrder[cidx] IN
        /\ closeCount' = [closeCount EXCEPT ![k] = @ + 1]
        /\ panicked' = (panicked \/ closeCount[k] > 0)
    /\ IF cidx = Len(CloseOrder)
       THEN cpc' = "producer" /\ cidx' = 0
       ELSE cpc' = cpc /\ cidx' = cidx + 1
    /\ UNCHANGED <<mainVars, ctorVars, chans, sinkStop, wgCount, wpc, wbatch, widx>>
    /\ UNCHANGED <<engVars, sigVars, sent, attempts, errs, earlyClose>>
    /\ UNCHANGED <<recvVars, sampVars>>

\* err := sink.producer.Close(); Close returns it and main's deferred
\* closure logs it when it is not nil.
CloseProducer ==
    /\ cpc = "producer"
    /\ producer' = "closed"
    /\ cpc' = "returned"
    /\ mpc' = "return"
    /\ \E e \in {"nil", "closeErr"} :
        logged' = IF e # "nil" THEN Append(logged, e) ELSE logged
    /\ UNCHANGED <<err, sink, defers, ctorErr, sinkMade>>
    /\ UNCHANGED <<chans, closeCount, sinkStop, wgCount, wpc, wbatch, widx, cidx>>
    /\ UNCHANGED <<engVars, sigVars, obsVars>>
    /\ UNCHANGED <<recvVars, sampVars>>

\* ----------------------------------------------- KafkaSink.run workers
\* The goroutine of kind k starts running: defer s.wg.Done(), enter the loop.
WorkerStart(k) ==
    /\ wpc[k] = "spawned"
    /\ wpc' = [wpc EXCEPT ![k] = "select"]
    /\ UNCHANGED <<mainVars, ctorVars, chans, closeCount, sinkStop, wgCount, wbatch, widx, cpc, cidx>>
    /\ UNCHANGED <<engVars, sigVars, obsVars>>
    /\ UNCHANGED <<recvVars, sampVars>>

\* A receive from a non-empty buffered channel: the oldest element.
ChanRecv(q) == [val |-> Head(q), rest |-> Tail(q)]

WorkerChan_CopyPaste(k) == IF k = "groupRate" THEN "topicRate" ELSE k

\* The channel worker k receives from: each of the four goroutines of run
\* names its own channel in its select.
WorkerChan(k) == k

\* case metrics := <-s.xxxChan: receive the next batch.  A receive on a closed
\* channel yields what is still buffered and then nil batches.
WorkerRecv(k) ==
    /\ wpc[k] = "select"
    /\ LET c == WorkerChan(k) IN
        /\ chans[c] # << >> \/ closeCount[c] > 0
        /\ recvBy' = [recvBy EXCEPT ![c] = @ \cup {k}]
        /\ recvClosed' = (recvClosed \/ closeCount[c] > 0)
        /\ LET r == IF chans[c] # << >>
                    THEN ChanRecv(chans[c])
                    ELSE [val |-> << >>, rest |-> << >>] IN
            /\ chans' = [chans EXCEPT ![c] = r.rest]
            /\ IF r.val = << >>
               THEN UNCHANGED <<wpc, wbatch, widx>>
               ELSE /\ wpc' = [wpc EXCEPT ![k] = "export"]
                    /\ wbatch' = [wbatch EXCEPT ![k] = r.val]
                    /\ widx' = [widx EXCEPT ![k] = 1]
    /\ UNCHANGED <<mainVars, ctorVars, closeCount, sinkStop, wgCount, cpc, cidx>>
    /\ UNCHANGED <<engVars, sigVars, obsVars>>
    /\ UNCHANGED sampVars

StopObservedAt_InsideLoop(k) == wpc[k] \in {"select", "export"}

\* Where worker k can observe the stop channel: only at its select, never
\* inside the range loop over a received batch.
StopObservedAt(k) == wpc[k] = "select"

StopCaseReady_OrChannelEmpty(k) == sinkStop > 0 \/ chans[k] = << >>

\* When the select's stop case is ready: the stop channel is closed.  The
\* select has no default case and no case that returns on an empty or closed
\* metric channel.
StopCaseReady(k) == sinkStop > 0

\* case <-s.stopCh: log, return; the deferred s.wg.Done() runs.
WorkerStop(k) ==
    /\ StopObservedAt(k)
    /\ wpc[k] # "done"
    /\ StopCaseReady(k)
    /\ wpc' = [wpc EXCEPT ![k] = "done"]
    /\ wgCount' = wgCount - 1
    /\ UNCHANGED <<mainVars, ctorVars, chans, closeCount, sinkStop, wbatch, widx, cpc, cidx>>
    /\ UNCHANGED <<engVars, sigVars, obsVars>>
    /\ UNCHANGED <<recvVars, sampVars>>

AfterExport_ReturnsOnError(k, outcome) ==
    IF outcome # "sent"
    THEN [pc |-> "done", idx |-> 0, batch |-> << >>]
    ELSE IF widx[k] = Len(wbatch[k])
    THEN [pc |-> "select", idx |-> 0, batch |-> << >>]
    ELSE [pc |-> "export", idx |-> widx[k] + 1, batch |-> wbatch[k]]

\* Where worker k stands after one iteration of `for _, metric := range metrics`
\* ended with outcome: at the next record, or back at the select after the last.
AfterExport(k, outcome) ==
    IF widx[k] = Len(wbatch[k])
    THEN [pc |-> "select", idx |-> 0, batch |-> << >>]
    ELSE [pc |-> "export", idx |-> widx[k] + 1, batch |-> wbatch[k]]

CurrentRecord_Reversed(k) == wbatch[k][Len(wbatch[k]) - widx[k] + 1]

\* The record the range loop of worker k is at: slice order.
CurrentRecord(k) == wbatch[k][widx[k]]

\* The outcomes of one iteration: json.Marshal fails (logged, SendMessage is
\* not called), SendMessage fails (logged), or the record is published.
\* SendMessage on a closed producer cannot publish.
Outcomes == {"sent", "marshalErr", "sendErr"}

CanPublish_SinkWideLock(k) == \A j \in Kinds \ {k} : wpc[j] # "export"

\* When worker k's iteration can run: the workers share no lock, and
\* SendMessage is called without waiting for any other worker.
CanPublish(k) == TRUE

\* One iteration of the range loop over the received batch: marshal the
\* record and publish it with s.producer.SendMessage; an error is logged and
\* the loop goes on with the next record.
WorkerExport(k) ==
    /\ wpc[k] = "export"
    /\ CanPublish(k)
    /\ \E outcome \in Outcomes :
        /\ outcome = "sent" => producer = "open"
        /\ outcome # "sent" => (errs < MaxErrors \/ producer # "open")
        /\ LET n == AfterExport(k, outcome) IN
            /\ wpc' = [wpc EXCEPT ![k] = n.pc]
            /\ widx' = [widx EXCEPT ![k] = n.idx]
            /\ wbatch' = [wbatch EXCEPT ![k] = n.batch]
            /\ wgCount' = IF n.pc = "done" THEN wgCount - 1 ELSE wgCount
        /\ attempts' = [attempts EXCEPT ![k] = Append(@, CurrentRecord(k))]
        /\ errs' = IF outcome = "sent" THEN errs ELSE errs + 1
    /\ UNCHANGED <<mainVars, ctorVars, chans, closeCount, sinkStop, cpc, cidx>>
    /\ UNCHANGED <<engVars, sigVars, sent, panicked, earlyClose>>
    /\ UNCHANGED <<recvVars, sampVars>>

\* ------------------------------------------------------ the engine
\* The sampling loop's ticker fires: a tick starts and builds its four batches.
EngineTick ==
    /\ epc = "running"
    /\ etick < MaxTicks
    /\ etick' = etick + 1
    /\ ekind' = 1
    /\ epc' = "sending"
    /\ UNCHANGED <<mainVars, ctorVars, sinkVars, engineClosed, stopCh, sigVars, obsVars>>
    /\ UNCHANGED <<recvVars, sampVars>>

ChanCanSend_Unbounded(q) == TRUE

\* A send into channel q can complete: the buffer has room.
ChanCanSend(q) == Len(q) < ChanCap

\* The tick sends its next batch on the sink's channel: blocks while the
\* channel is full, panics when the channel is closed.
EngineSend ==
    /\ epc = "sending"
    /\ LET k == SendOrder[ekind] IN
        IF closeCount[k] > 0
        THEN /\ panicked' = TRUE
             /\ UNCHANGED <<chans, sent>>
        ELSE /\ ChanCanSend(chans[k])
             /\ chans' = [chans EXCEPT ![k] = Append(@, Batch(k, etick))]
             /\ sent' = [sent EXCEPT ![k] = Append(@, Batch(k, etick))]
             /\ UNCHANGED panicked
    /\ IF ekind = Len(SendOrder)
       THEN epc' = "running" /\ ekind' = 0
       ELSE epc' = epc /\ ekind' = ekind + 1
    /\ UNCHANGED <<mainVars, ctorVars, closeCount, sinkStop, wgCount, wpc, wbatch, widx, cpc, cidx>>
    /\ UNCHANGED <<etick, engineClosed, stopCh, sigVars, attempts, errs, earlyClose>>
    /\ UNCHANGED <<recvVars, sampVars>>

\* Between ticks the loop observes the closed stop channel and returns; it
\* closes none of the sink's channels.
EngineStop ==
    /\ epc = "running"
    /\ stopCh > 0
    /\ epc' = "stopped"
    /\ UNCHANGED <<mainVars, ctorVars, sinkVars, etick, ekind, engineClosed, stopCh, sigVars, obsVars>>
    /\ UNCHANGED <<recvVars, sampVars>>

\* --------------------------------------------- installSignalHandler
\* The OS delivers SIGINT/SIGTERM after signal.Notify: the signal is buffered in
\* c for the handler.  Once the handler has received, nothing reads c again: a
\* later signal stays in c (or is dropped) and changes nothing the program reads.
Signal ==
    /\ hpc = "recv"
    /\ sigBuf = 0
    /\ sigBuf' = 1
    /\ UNCHANGED <<mainVars, ctorVars, sinkVars, engVars, hpc, hwg, obsVars>>
    /\ UNCHANGED <<recvVars, sampVars>>

\* sig := <-c
HandlerRecv ==
    /\ hpc = "recv"
    /\ sigBuf > 0
    /\ sigBuf' = sigBuf - 1
    /\ hpc' = "close"
    /\ UNCHANGED <<mainVars, ctorVars, sinkVars, engVars, hwg, obsVars>>
    /\ UNCHANGED <<recvVars, sampVars>>

\* for _, stopCh := range stopChs { close(stopCh) }
HandlerClose ==
    /\ hpc = "close"
    /\ stopCh' = stopCh + 1
    /\ panicked' = (panicked \/ stopCh > 0)
    /\ hpc' = "log"
    /\ UNCHANGED <<mainVars, ctorVars, sinkVars, epc, etick, ekind, engineClosed>>
    /\ UNCHANGED <<sigBuf, hwg, sent, attempts, errs, earlyClose>>
    /\ UNCHANGED <<recvVars, sampVars>>

\* logrus.Infof(...); wg.Done()
HandlerDone ==
    /\ hpc = "log"
    /\ hwg' = hwg - 1
    /\ hpc' = "done"
    /\ UNCHANGED <<mainVars, ctorVars, sinkVars, engVars, sigBuf, obsVars>>
    /\ UNCHANGED <<recvVars, sampVars>>

\* ------------------------------------------------------------ Next
Main ==
    \/ MainNew \/ MainNewSource \/ MainRun \/ MainInstall \/ MainRecvStop
    \/ MainWgWait \/ MainSWait \/ MainSinkWait
    \/ MainDeferSClose \/ MainDeferSinkClose \/ MainExit

Close == CloseStop \/ CloseWait \/ CloseChan \/ CloseProducer

Worker(k) ==
    \/ WorkerStart(k) \/ WorkerRecv(k) \/ WorkerStop(k)
    \/ WorkerExport(k)

Engine == EngineTick \/ EngineSend \/ EngineStop

Handler == HandlerRecv \/ HandlerClose \/ HandlerDone

Next ==
    \/ Main
    \/ Close
    \/ \E k \in Kinds : Worker(k)
    \/ Engine
    \/ Handler
    \/ Signal

Spec == Init /\ [][Next]_vars

\* Scheduling: every goroutine that can take a step eventually takes one (the Go
\* scheduler starves no runnable goroutine, and every downstream call and the
\* engine's tick are assumed to return); a select whose stop case is ready
\* again and again eventually takes it (select picks among ready cases at
\* random).  No signal is ever required to arrive.
Fairness ==
    /\ WF_vars(Main)
    /\ WF_vars(Close)
    /\ WF_vars(Handler)
    /\ WF_vars(EngineTick \/ EngineSend)
    /\ SF_vars(EngineStop)
    /\ \A k \in Kinds :
        /\ WF_vars(WorkerStart(k) \/ WorkerRecv(k) \/ WorkerExport(k))
        /\ SF_vars(WorkerStop(k))

FairSpec == Spec /\ Fairness

\* ------------------------------- collection engine: sampling (pkg/metrics)
Parts == 1..NumParts
Offsets == 0..MaxOffset

\* The history keys: (topic, partition) and (group, topic, partition), for one
\* topic and one consumer group.
TopicKey(p) == <<"topic", p>>
GroupKey(p) == <<"group", p>>
Keys == {TopicKey(p) : p \in Parts} \cup {GroupKey(p) : p \in Parts}

HasHistory_Always(h, key) == TRUE

\* Whether the history map holds a previous sample of the key.
HasHistory(h, key) == key \in DOMAIN h

\* The history map's entry of the key (a missing entry reads as the zero value).
Previous(h, key) == IF key \in DOMAIN h THEN h[key] ELSE 0

\* The history map after the sample o of the key was stored.
Remember(h, key, o) == [k \in DOMAIN h \cup {key} |-> IF k = key THEN o ELSE h[k]]

\* The rate metric of the sample o of the key: none without a previous sample,
\* else derived from the stored sample and this one.
RateOf(h, key, o) ==
    IF HasHistory(h, key)
    THEN {[key |-> key, cur |-> o, prev |-> Previous(h, key), delta |-> o - Previous(h, key)]}
    ELSE {}

Lag_Unclamped(logEnd, committed) == logEnd - committed

\* lag = logEndOffset - committedOffset, reported as 0 when it would be negative.
Lag(logEnd, committed) == IF committed > logEnd THEN 0 ELSE logEnd - committed

\* The ticker fires: a new sample begins.
BeginTick ==
    /\ spos = 0
    /\ stick < SampleTicks
    /\ stick' = stick + 1
    /\ spos' = 1
    /\ logEndNow' = [p \in {} |-> 0]
    /\ sampled' = {}
    /\ rateOut' = {}
    /\ lagOut' = {}
    /\ UNCHANGED <<hist, lastObs>>
    /\ UNCHANGED <<mainVars, ctorVars, sinkVars, engVars, sigVars, obsVars, recvVars>>

\* Step 1 of a tick, for partition p: fetch the log-end offset (the partition
\* may be missing from this tick's listing), emit the topic rate when the key
\* has history, store the sample.
SampleOffset(p) ==
    /\ spos = p
    /\ spos' = spos + 1
    /\ lagOut' = {}
    /\ \/ /\ sampled' = {}
          /\ rateOut' = {}
          /\ UNCHANGED <<logEndNow, hist, lastObs>>
       \/ \E o \in Offsets :
          /\ sampled' = {[key |-> TopicKey(p), off |-> o]}
          /\ logEndNow' = [q \in DOMAIN logEndNow \cup {p} |-> IF q = p THEN o ELSE logEndNow[q]]
          /\ rateOut' = RateOf(hist, TopicKey(p), o)
          /\ hist' = Remember(hist, TopicKey(p), o)
          /\ lastObs' = [k \in DOMAIN lastObs \cup {TopicKey(p)} |->
                            IF k = TopicKey(p) THEN o ELSE lastObs[k]]
    /\ UNCHANGED stick
    /\ UNCHANGED <<mainVars, ctorVars, sinkVars, engVars, sigVars, obsVars, recvVars>>

\* Steps 2 and 3 of a tick, for the group's partition p: fetch the committed
\* offset (the group may have none for p, and a partition missing from this
\* tick has no log-end offset to combine with), emit the offset metric with
\* its lag and the group rate when the key has history, store the sample.
SampleGroup(p) ==
    /\ spos = NumParts + p
    /\ spos' = IF p = NumParts THEN 0 ELSE spos + 1
    /\ \/ /\ sampled' = {}
          /\ rateOut' = {}
          /\ lagOut' = {}
          /\ UNCHANGED <<hist, lastObs>>
       \/ /\ p \in DOMAIN logEndNow
          /\ \E c \in Offsets :
             /\ sampled' = {[key |-> GroupKey(p), off |-> c]}
             /\ lagOut' = {[key |-> GroupKey(p), committedOffset |-> c,
                            logEndOffset |-> logEndNow[p],
                            lag |-> Lag(logEndNow[p], c)]}
             /\ rateOut' = RateOf(hist, GroupKey(p), c)
             /\ hist' = Remember(hist, GroupKey(p), c)
             /\ lastObs' = [k \in DOMAIN lastObs \cup {GroupKey(p)} |->
                               IF k = GroupKey(p) THEN c ELSE lastObs[k]]
    /\ UNCHANGED <<stick, logEndNow>>
    /\ UNCHANGED <<mainVars, ctorVars, sinkVars, engVars, sigVars, obsVars, recvVars>>

Sampling == BeginTick \/ (\E p \in Parts : SampleOffset(p)) \/ (\E p \in Parts : SampleGroup(p))

\* The engine's sampling loop on its own.
EngineSpec == Init /\ [][Sampling]_vars

\* ------------------------------------------------------------ claims
RECURSIVE Flatten(_)
\* The records of a sequence of batches, in order.
Flatten(bs) == IF bs = << >> THEN << >> ELSE Head(bs) \o Flatten(Tail(bs))

\* The first n elements of s.
Prefix(s, n) == SubSeq(s, 1, n)

\* Number of indices of sequence s holding x.
Occurrences(s, x) == Cardinality({i \in DOMAIN s : s[i] = x})

\* The batches worker k has received so far: what was sent and is no longer buffered.
Received(k) == Prefix(sent[k], Len(sent[k]) - Len(chans[k]))

\* The records worker k has still to handle in the batch it is ranging over.
Remaining(k) == IF wpc[k] = "export" THEN Len(wbatch[k]) - widx[k] + 1 ELSE 0

AllDone == \A k \in Kinds : wpc[k] = "done"

CloseReached(pcs) == cpc \in pcs

\* C1: when a worker has returned, no batch is left buffered in its channel:
\* every batch the channel accepted before the stop signal was exported.
C1_DrainedAtExit ==
    \A k \in Kinds : wpc[k] = "done" => chans[k] = << >>

\* C2: when sink.Wait has returned (main is at its return with both deferred
\* calls still to run), all four workers have exited.
C2_WaitMeansWorkersExited ==
    (mpc = "return" /\ defers = <<"sinkClose", "sClose">>) => AllDone

\* C3: Close closes the stop channel, then waits for the four workers, then
\* closes the four channels, then closes the producer: no channel is closed
\* while a worker runs, and the producer is closed only after all four channels.
C3_CloseOrder ==
    /\ CloseReached({"idle", "closeStop"}) =>
        (sinkStop = 0 /\ producer # "closed" /\ \A k \in Kinds : closeCount[k] = 0)
    /\ CloseReached({"wait"}) =>
        (sinkStop = 1 /\ producer # "closed" /\ \A k \in Kinds : closeCount[k] = 0)
    /\ CloseReached({"chans"}) =>
        (sinkStop = 1 /\ AllDone /\ wgCount = 0 /\ producer # "closed")
    /\ CloseReached({"producer"}) =>
        (sinkStop = 1 /\ AllDone /\ producer # "closed" /\ \A k \in Kinds : closeCount[k] = 1)
    /\ CloseReached({"returned"}) =>
        (sinkStop = 1 /\ AllDone /\ producer = "closed" /\ \A k \in Kinds : closeCount[k] = 1)
    /\ \A k \in Kinds : closeCount[k] > 0 => (sinkStop = 1 /\ AllDone)
    /\ \A k \in Kinds : wpc[k] = "export" => producer # "closed"

\* C3's case: Close ran to its end on a sink whose workers had exported records.
C3_Witness ==
    /\ cpc = "returned"
    /\ producer = "closed"
    /\ \E k \in Kinds : attempts[k] # << >>

\* C4: when Close closes the stop channel before any worker has been scheduled,
\* Close still returns, and each of the four channels is closed exactly once.
C4_EarlyCloseReturns ==
    /\ earlyClose ~> (cpc = "returned")
    /\ [](earlyClose => (~panicked /\ \A k \in Kinds : closeCount[k] <= 1))
    /\ []((earlyClose /\ cpc = "returned") => \A k \in Kinds : closeCount[k] = 1)

\* C4's case: Close was called before any worker ran, and has returned.
C4_Witness == earlyClose /\ cpc = "returned"

\* A step in which worker k logs a failed export.
FailedExport(k) ==
    /\ wpc[k] = "export"
    /\ attempts'[k] # attempts[k]
    /\ errs' = errs + 1

RECURSIVE NoDuplicates(_)
NoDuplicates(q) ==
    IF q = << >> THEN TRUE
    ELSE Occurrences(q, Head(q)) = 1 /\ NoDuplicates(Tail(q))

\* C5: a failed export of a record never stops the worker and skips nothing:
\* the worker goes on with the next record of the batch (or back to its select
\* after the last one), the other workers and all channels are untouched, no
\* record is handled twice, and once a worker is back at its select (or has
\* exited) it has handled every record of every batch it received.
C5_FailureSkipsNothing ==
    /\ [][\A k \in Kinds : FailedExport(k) =>
            /\ attempts'[k] = Append(attempts[k], wbatch[k][widx[k]])
            /\ IF widx[k] < Len(wbatch[k])
               THEN wpc'[k] = "export" /\ widx'[k] = widx[k] + 1 /\ wbatch'[k] = wbatch[k]
               ELSE wpc'[k] = "select"
            /\ wgCount' = wgCount
            /\ chans' = chans
            /\ \A j \in Kinds \ {k} :
                /\ wpc'[j] = wpc[j]
                /\ widx'[j] = widx[j]
                /\ wbatch'[j] = wbatch[j]
                /\ attempts'[j] = attempts[j]]_vars
    /\ [](\A k \in Kinds :
            /\ NoDuplicates(attempts[k])
            /\ Len(attempts[k]) = Len(Flatten(Received(k))) - Remaining(k))

\* C5's case: the only export error so far hit a record of worker k's first
\* batch, and the worker now stands at a later record of that batch.
C5_Witness ==
    \E k \in Kinds :
        /\ errs = 1
        /\ wpc[k] = "export"
        /\ widx[k] = 2
        /\ Len(attempts[k]) = 1
        /\ \A j \in Kinds \ {k} : attempts[j] = << >>

EngineTornDown ==
    /\ stopCh = 1
    /\ hpc = "done"
    /\ hwg = 0
    /\ epc = "stopped"
    /\ engineClosed = 1

\* C7 as stated: sink.Close runs only after the stop channel was closed, the
\* handler finished, s.Wait returned and s.Close ran.
C7_CloseOnlyAfterTeardown ==
    cpc # "idle" => EngineTornDown

\* C7 amended: sink.Close runs only when no engine was constructed, or after the
\* stop channel was closed, the handler finished, s.Wait returned and s.Close
\* ran; a sink channel is closed only when no engine is running, and the engine
\* never sends on a closed channel.
C7_CloseAfterEngine ==
    /\ cpc # "idle" => (epc = "none" \/ EngineTornDown)
    /\ \A k \in Kinds : closeCount[k] > 0 => epc \in {"none", "stopped"}
    /\ ~panicked

\* C7's case: the engine ran and sent batches, and sink.Close has closed the channels.
C7_Witness ==
    /\ cpc = "returned"
    /\ epc = "stopped"
    /\ \A k \in Kinds : closeCount[k] = 1 /\ Len(sent[k]) = MaxTicks

\* C8: once a signal has been delivered to the running process, main
\* eventually returns, having closed the stop channel, waited for and closed the
\* engine, and closed the sink.
C8_ShutdownCompletes ==
    (sigBuf = 1) ~>
        (/\ mpc = "exited"
         /\ stopCh = 1
         /\ epc = "stopped"
         /\ engineClosed = 1
         /\ cpc = "returned"
         /\ producer = "closed")

\* C8's case: a signal was delivered and handled, and main has returned.
C8_Witness ==
    /\ mpc = "exited"
    /\ hpc = "done"
    /\ stopCh = 1
    /\ cpc = "returned"

\* C9: when the sink name is not registered, main logs the error and returns:
\* no engine is constructed or run, no signal handler is installed, and Close
\* is called on no sink.
C9_UnknownSinkExits ==
    err = "unknownSink" =>
        /\ mpc = "exited"
        /\ logged = <<"unknownSink">>
        /\ sink = "nil"
        /\ epc = "none"
        /\ etick = 0
        /\ hpc = "none"
        /\ cpc = "idle"
        /\ defers = << >>
        /\ sinkStop = 0
        /\ engineClosed = 0

\* C9's case: metrics.New failed on an unregistered name.
C9_Witness == err = "unknownSink" /\ mpc = "exited"

\* C10: when NewKafkaSink fails, main receives that same error and a nil sink,
\* and nothing is left behind: no channel, no producer, no worker goroutine.
C10_FailedCtorLeavesNothing ==
    ctorErr \in {"tlsErr", "producerErr"} =>
        /\ err = ctorErr
        /\ sink = "nil"
        /\ ~sinkMade
        /\ producer = "none"
        /\ wgCount = 0
        /\ \A k \in Kinds : wpc[k] = "none" /\ chans[k] = << >>

\* C10's case: the producer could not be constructed.
C10_Witness == ctorErr = "producerErr" /\ mpc = "exited"

\* The records of the batch worker k is ranging over that it has still to handle.
InHand(k) ==
    IF wpc[k] = "export" THEN SubSeq(wbatch[k], widx[k], Len(wbatch[k])) ELSE << >>

\* C11: each channel is bounded: it never buffers more than its capacity; a
\* send into a full channel does not complete and discards nothing until the
\* worker has received a batch; every batch a channel accepted is still
\* buffered, in the worker's hands, or handled.
C11_BoundedNoDrop ==
    /\ [](\A k \in Kinds :
            /\ Len(chans[k]) <= ChanCap
            /\ Len(chans[k]) <= Len(sent[k])
            /\ attempts[k] \o InHand(k) = Flatten(Received(k)))
    /\ [][\A k \in Kinds : Len(chans[k]) = ChanCap =>
            /\ sent'[k] = sent[k]
            /\ \/ chans'[k] = chans[k]
               \/ /\ chans'[k] = Tail(chans[k])
                  /\ wpc[k] = "select"
                  /\ Head(chans[k]) # << >> => wbatch'[k] = Head(chans[k])]_vars

\* C11's case: the engine stands at a send into a full channel.
C11_Witness ==
    /\ epc = "sending"
    /\ Len(chans[SendOrder[ekind]]) = ChanCap
    /\ ChanCap > 0

\* C14: a worker observes the stop signal only between batches: a worker that
\* has exited has handled every record of every batch it received.
C14_NoPartialBatch ==
    \A k \in Kinds :
        /\ wpc[k] = "done" =>
            /\ attempts[k] = Flatten(Received(k))
            /\ wbatch[k] = << >>
            /\ widx[k] = 0
        /\ wpc[k] = "export" => (widx[k] \in 1..Len(wbatch[k]) /\ wgCount > 0)

\* C14's case: the stop channel is closed while a worker is inside a batch, past
\* its first record.
C14_Witness ==
    \E k \in Kinds :
        /\ sinkStop = 1
        /\ wpc[k] = "export"
        /\ widx[k] = Len(wbatch[k])
        /\ widx[k] > 1

\* C15: a constructed sink has exactly four workers, one per channel; each
\* channel is received from by its own worker only, the WaitGroup counts the
\* workers that have not exited, and no record is handled twice.
C15_OneWorkerPerChannel ==
    /\ sinkMade => Cardinality({k \in Kinds : wpc[k] # "none"}) = Cardinality(Kinds)
    /\ ~sinkMade => \A k \in Kinds : wpc[k] = "none"
    /\ wgCount = Cardinality({k \in Kinds : wpc[k] \notin {"none", "done"}})
    /\ \A c \in Kinds :
        /\ recvBy[c] \subseteq {c}
        /\ NoDuplicates(attempts[c])
        /\ Len(attempts[c]) <= Len(Flatten(sent[c]))

\* C15's case: every channel has been received from, and every worker has
\* handled records.
C15_Witness ==
    \A c \in Kinds : recvBy[c] = {c} /\ attempts[c] # << >>

\* C16: when the sink was constructed, sink.Close is called exactly once, also
\* when engine construction fails; when the engine was constructed, s.Close is
\* called exactly once and before sink.Close; when engine construction fails,
\* Run is never called.
C16_CloseCalledOnce ==
    /\ sinkStop <= 1
    /\ engineClosed <= 1
    /\ (mpc = "exited" /\ sink = "kafka") => (cpc = "returned" /\ sinkStop = 1)
    /\ sink = "nil" => (cpc = "idle" /\ sinkStop = 0)
    /\ epc = "none" => engineClosed = 0
    /\ (mpc = "exited" /\ epc # "none") => engineClosed = 1
    /\ (cpc # "idle" /\ epc # "none") => engineClosed = 1
    /\ err = "sourceErr" => (epc = "none" /\ etick = 0 /\ stopCh = 0 /\ hpc = "none")

\* C16's case: engine construction failed and main has returned.
C16_Witness ==
    /\ mpc = "exited"
    /\ err = "sourceErr"
    /\ cpc = "returned"

\* C17: no worker calls SendMessage after producer.Close was invoked: once
\* Close has reached producer.Close every worker has exited, and a worker inside
\* an iteration always finds the producer open.
C17_NoSendAfterProducerClose ==
    /\ (producer = "closed" \/ cpc \in {"producer", "returned"}) =>
        (\A k \in Kinds : wpc[k] = "done" /\ wbatch[k] = << >>)
    /\ \A k \in Kinds : wpc[k] \in {"select", "export"} => producer = "open"

\* C17's case: the producer is closed after the workers published every record sent.
C17_Witness ==
    /\ producer = "closed"
    /\ \A k \in Kinds : Len(sent[k]) = MaxTicks /\ attempts[k] = Flatten(sent[k])

\* C18: a worker exits only after the sink's stop channel was closed (not on an
\* export error, an empty channel or a closed metric channel), and no worker
\* receives on a closed metric channel.
C18_ExitOnlyOnStop ==
    /\ \A k \in Kinds : wpc[k] = "done" => sinkStop = 1
    /\ \A k \in Kinds : closeCount[k] > 0 => wpc[k] = "done"
    /\ ~recvClosed

\* C18's case: a worker that logged an export error and found its channel empty
\* kept running until the stop channel was closed, and then exited.
C18_Witness ==
    \E k \in Kinds :
        /\ errs = 1
        /\ attempts[k] # << >>
        /\ \A j \in Kinds \ {k} : attempts[j] = << >>
        /\ chans[k] = << >>
        /\ wpc[k] = "done"

\* main has started its teardown: s.Wait, sink.Wait or a deferred Close call.
TeardownStarted ==
    \/ mpc \in {"sWait", "sinkWait"}
    \/ engineClosed > 0
    \/ cpc # "idle"

\* C19 as stated: the stop channel is closed exactly once, by the handler, and
\* main starts its teardown only after the handler closed it and finished.
C19_TeardownAfterHandler ==
    /\ stopCh <= 1
    /\ TeardownStarted => (hpc = "done" /\ hwg = 0 /\ stopCh = 1)

\* C19 amended: the stop channel is closed at most once, by the handler; when
\* the handler was installed, main starts its teardown only after the handler
\* closed the stop channel and finished; when no handler was installed (engine
\* construction failed) the only teardown is the deferred sink.Close.
C19_TeardownAfterInstalledHandler ==
    /\ stopCh <= 1
    /\ stopCh = 1 => hpc \in {"log", "done"}
    /\ hpc \in {"log", "done"} => stopCh = 1
    /\ (hpc # "none" /\ TeardownStarted) => (hpc = "done" /\ hwg = 0 /\ stopCh = 1)
    /\ (hpc = "none" /\ TeardownStarted) =>
        (err = "sourceErr" /\ engineClosed = 0 /\ mpc \notin {"sWait", "sinkWait"})
    /\ mpc \in {"wgWait"} => stopCh = 1

\* C19's case: the handler closed the stop channel and finished, and main has
\* called s.Wait.
C19_Witness ==
    /\ mpc = "sWait"
    /\ hpc = "done"
    /\ stopCh = 1

C12_RateFromPrecedingSample ==
    [][/\ sampled' = {} => rateOut' = {}
       /\ \A s \in sampled' : spos' # spos =>
            IF s.key \in DOMAIN lastObs
            THEN rateOut' = {[key |-> s.key, cur |-> s.off, prev |-> lastObs[s.key],
                              delta |-> s.off - lastObs[s.key]]}
            ELSE rateOut' = {}]_vars

\* C12's case: a rate was emitted for a key from two different samples on a
\* later tick than the second, while another key has not been observed yet.
C12_Witness ==
    /\ stick = SampleTicks
    /\ DOMAIN lastObs # Keys
    /\ \E r \in rateOut : r.delta # 0 /\ r.key \in DOMAIN lastObs

\* C13: every emitted ConsumerGroupOffsetMetric has lag = max(0, logEndOffset -
\* committedOffset), for the offsets the cluster reported: never negative.
C13_LagClamped ==
    \A m \in lagOut :
        /\ m.lag >= 0
        /\ m.lag = IF m.logEndOffset - m.committedOffset > 0
                   THEN m.logEndOffset - m.committedOffset ELSE 0
        /\ m.key \in DOMAIN lastObs /\ m.committedOffset = lastObs[m.key]
        /\ \E p \in Parts : m.key = GroupKey(p) /\ m.logEndOffset = lastObs[TopicKey(p)]

\* C13's case: the committed offset exceeds the log-end offset and the lag is 0.
C13_Witness ==
    \E m \in lagOut : m.committedOffset > m.logEndOffset /\ m.lag = 0

====
